---- MODULE Spec2Model ----
(***************************************************************************)
(* Model of the interval copy / archive utility SEArch-tool.py:            *)
(* process_files() with the helpers write_log_entry() and                  *)
(* remove_source_file(), over a small file system.                         *)
(*                                                                         *)
(* Time is counted in hours since 2025-01-01 00:00 (local time).  A path   *)
(* is the sequence of its components; a file name is one component.        *)
(*                                                                         *)
(* One step of the model is one pass of a loop body of process_files (one  *)
(* file copied, one archive opened, one file archived, one archive         *)
(* closed); each I/O operation of the step may raise when its kind is in   *)
(* faults.  An operation that raises leaves the target as it was: a failed *)
(* copy2 writes no file, a failed tar add writes no member.  A directory   *)
(* listing yields the files in one fixed order.                            *)
(*                                                                         *)
(* Further parts, each with a specification of its own: the front ends of  *)
(* SEArch-tool.py and their scheduler, write_log_entry with the CSV files  *)
(* and the GUI history, the GUI and interval_copy_files of SECopy-tool.py, *)
(* and the check threads of FETL-netchecker.py.                            *)
(***************************************************************************)
EXTENDS Integers, Sequences, FiniteSets, TLC

VARIABLES
    cfg,            \* the settings a run is started with (fixed per behaviour)
    faults,         \* the kinds of I/O operation that may raise in this behaviour
    mtime,          \* source path -> modification time (hours)
    srcFiles,       \* the source paths that exist
    copied,         \* target location -> the content copied there
    tars,           \* archive location -> sequence of tar members
    pc,             \* position of process_files: idle, copy, open, archive, close
    run,            \* number of runs started
    now,            \* datetime.now() taken at the start of the current run
    groups,         \* file_groups of the current run, in insertion order
    gi,             \* index of the group being processed
    fi,             \* index of the file being processed in that group
    filesInArchive, \* files_in_archive of the group being archived
    tarMode,        \* tar_mode of the group being archived
    runLog,         \* the rows this run handed to write_log_entry, in order
    outcome,        \* source path -> what this run did with the file
    delTried,       \* source paths whose removal this run attempted
    removed,        \* source paths this run removed
    escaped,        \* TRUE when the last run ended by an exception leaving process_files
    logLost,        \* TRUE when a CSV write of this run raised inside write_log_entry
    mtimeErr,       \* source paths whose os.path.getmtime raised in this run
    total_processed_count, \* the counter of the current run
    openFailed,     \* indexes of the groups whose tarfile.open raised in this run
    failedBefore,   \* files whose copy or add raised in the run before, not yet reached by this run
    IS_WINDOWS,     \* os.name == 'nt': the platform the program runs on
    front,          \* the front end that runs: "none", "cli" (run_cli_mode) or "gui" (App)
    fields,         \* the settings as text: the config file (CLI) or the widgets (GUI)
    is_running,     \* App.is_running
    jobs,           \* schedule.jobs: the jobs the scheduler holds, each with its interval
    timers,         \* number of pending master.after callbacks of check_schedule
    stack,          \* the calls in progress, innermost last
    cli,            \* position of run_cli_mode
    usedDays,       \* the delete_age_days values process_files was called with
    clicks,         \* number of clicks on the Start/Stop button handled
    edits,          \* number of edits of a widget handled
    logDay,         \* the day datetime.now() falls on when a log row is written
    logFiles,       \* day -> the rows of that day's CSV log file, for the files that exist
    LOG_HISTORY,    \* the deque of GUI rows, leftmost first
    nLogged,        \* number of calls of write_log_entry
    secopied,       \* SECopy: target location -> the content interval_copy_files copied there
    secopyRuns,     \* SECopy: number of runs of interval_copy_files
    checking,       \* netchecker: NetworkCheckerApp.checking
    threads,        \* netchecker: the position of every _run_check_loop thread started
    presses         \* netchecker: number of presses of Start and Stop handled

\* the state of process_files and of its file system
procVars == <<cfg, faults, mtime, srcFiles, copied, tars, pc, run, now, groups, gi, fi,
              filesInArchive, tarMode, runLog, outcome, delTried, removed, escaped, logLost,
              mtimeErr, total_processed_count, openFailed, failedBefore, IS_WINDOWS>>

\* the state of the front end and of the scheduler
schedVars == <<front, fields, is_running, jobs, timers, stack, cli,
               usedDays, clicks, edits>>

\* the state of the log: the daily CSV files and the history of the GUI
logVars == <<logDay, logFiles, LOG_HISTORY, nLogged>>

\* the state of the parts that are modelled on their own
\* the state of SECopy's interval_copy_files
copyVars == <<secopied, secopyRuns>>

\* the state of the network checker
netVars == <<checking, threads, presses>>

toolVars == <<logVars, copyVars, netVars>>

vars == <<procVars, schedVars, toolVars>>

(***************************************************************************)
(* Bounds of the model and constants of the program.                       *)
(***************************************************************************)
MaxRuns == 2

MIN_DELETE_AGE_DAYS == 30

(***************************************************************************)
(* Calendar: datetime.fromtimestamp and the strftime formats.              *)
(***************************************************************************)
MonthLen == <<31, 28, 31, 30, 31, 30, 31, 31, 30, 31, 30, 31>>

RECURSIVE MonthDay(_, _)
MonthDay(doy, m) ==
    IF doy < MonthLen[m] THEN <<m, doy + 1>> ELSE MonthDay(doy - MonthLen[m], m + 1)

fromtimestamp(t) ==
    LET d  == t \div 24
        md == MonthDay(d % 365, 1)
    IN  [Y |-> 2025 + (d \div 365), M |-> md[1], D |-> md[2], H |-> t % 24]

\* a < b on datetime objects
DtLess(a, b) ==
    \/ a.Y < b.Y
    \/ a.Y = b.Y /\ a.M < b.M
    \/ a.Y = b.Y /\ a.M = b.M /\ a.D < b.D
    \/ a.Y = b.Y /\ a.M = b.M /\ a.D = b.D /\ a.H < b.H

Pad2(n) == IF n < 10 THEN "0" \o ToString(n) ELSE ToString(n)

\* strftime('%Y/%m/%d/%H'), as the path components it yields
COPY_TIME_SUBDIR_FORMAT(dt) == <<ToString(dt.Y), Pad2(dt.M), Pad2(dt.D), Pad2(dt.H)>>

\* strftime('%Y/%m'), as the path components it yields
ARCHIVE_TIME_SUBDIR_FORMAT(dt) == <<ToString(dt.Y), Pad2(dt.M)>>

\* strftime('%Y%m%d')
ArchiveBaseNameMonthOnly(dt) == ToString(dt.Y) \o Pad2(dt.M)
ArchiveBaseName(dt) == ToString(dt.Y) \o Pad2(dt.M) \o Pad2(dt.D)

(***************************************************************************)
(* Paths.                                                                  *)
(***************************************************************************)
basename(p) == p[Len(p)]

IsPrefix(a, b) == Len(a) <= Len(b) /\ SubSeq(b, 1, Len(a)) = a

\* os.path.relpath(p, start) for p at or below start
relpath(p, start) == IF p = start THEN <<".">> ELSE SubSeq(p, Len(start) + 1, Len(p))

\* the location a path names: "." components do not count
Loc(p) == SelectSeq(p, LAMBDA c : c # ".")

(***************************************************************************)
(* fnmatch.fnmatch on a case-sensitive platform: * ? and literal           *)
(* characters.  Names and patterns are matched character by character.     *)
(***************************************************************************)
Chars(s) ==
    CASE s = "x.log" -> <<"x", ".", "l", "o", "g">>
      [] s = "y.log" -> <<"y", ".", "l", "o", "g">>
      [] s = "n.txt" -> <<"n", ".", "t", "x", "t">>
      [] s = "*.log" -> <<"*", ".", "l", "o", "g">>
      [] s = "x.*"   -> <<"x", ".", "*">>
      [] s = "a.csv" -> <<"a", ".", "c", "s", "v">>
      [] s = "b.txt" -> <<"b", ".", "t", "x", "t">>
      [] s = "c.CSV" -> <<"c", ".", "C", "S", "V">>
      [] s = "*.csv" -> <<"*", ".", "c", "s", "v">>
      [] s = "*.CSV" -> <<"*", ".", "C", "S", "V">>
      [] s = "?.csv" -> <<"?", ".", "c", "s", "v">>
      [] s = "*.txt" -> <<"*", ".", "t", "x", "t">>
      [] OTHER       -> <<>>

RECURSIVE Glob(_, _)
Glob(n, p) ==
    IF p = <<>> THEN n = <<>>
    ELSE IF Head(p) = "*"
         THEN Glob(n, Tail(p)) \/ (n # <<>> /\ Glob(Tail(n), p))
    ELSE IF n = <<>> THEN FALSE
    ELSE (Head(p) = "?" \/ Head(p) = Head(n)) /\ Glob(Tail(n), Tail(p))

\* str.lower() of one character
Lower(c) ==
    CASE c = "C" -> "c"
      [] c = "S" -> "s"
      [] c = "V" -> "v"
      [] OTHER   -> c

\* os.path.normcase: lower case on Windows, the identity elsewhere
normcase(chars) ==
    IF IS_WINDOWS THEN [k \in 1..Len(chars) |-> Lower(chars[k])] ELSE chars

\* fnmatch.fnmatch normalizes the case of name and pattern, then matches
fnmatch(filename, pattern) == Glob(normcase(Chars(filename)), normcase(Chars(pattern)))

(***************************************************************************)
(* The file system the runs work on.                                       *)
(***************************************************************************)
TargetDir == <<"out">>
RA == <<"s", "a">>
RS == <<"s", "a", "sub">>
RB == <<"t", "a">>
RC == <<"u", "c">>
RG == <<"s", "gone">>

\* the directories that exist, parents before children (os.walk is top-down)
DirOrder == <<RA, RS, RB, RC>>

\* the files, in the order a directory listing yields them
FileOrder ==
    << [dir |-> RA, name |-> "x.log"],
       [dir |-> RA, name |-> "y.log"],
       [dir |-> RA, name |-> "n.txt"],
       [dir |-> RS, name |-> "x.log"],
       [dir |-> RB, name |-> "x.log"],
       [dir |-> RC, name |-> "a.csv"],
       [dir |-> RC, name |-> "b.txt"],
       [dir |-> RC, name |-> "c.CSV"] >>

PathOf(f) == f.dir \o <<f.name>>

AllPaths == {PathOf(FileOrder[i]) : i \in 1..Len(FileOrder)}

isdir(d) == \E i \in 1..Len(DirOrder) : DirOrder[i] = d

(***************************************************************************)
(* write_log_entry and remove_source_file.                                 *)
(***************************************************************************)
\* the row write_log_entry is handed, by its five columns
LogRow(entry) ==
    [time |-> entry[1], source |-> entry[2], name |-> entry[3],
     target |-> entry[4], status |-> entry[5]]

\* remove_source_file: the files left, the log entry as changed, the rows logged
\* by the helper itself, and its return value
remove_source_fileDropsSuccess(files, source_path, log_entry, rmOk) ==
    IF rmOk
    THEN [files |-> files \ {source_path},
          entry |-> [log_entry EXCEPT ![5] = Append(@, "MOVED/DELETED")],
          rows  |-> <<>>,
          ret   |-> TRUE]
    ELSE LET e == [log_entry EXCEPT ![5] = <<"ERROR DELETING SOURCE">>]
         IN  [files |-> files,
              entry |-> e,
              rows  |-> <<LogRow(e)>>,
              ret   |-> FALSE]

remove_source_file(files, source_path, log_entry, rmOk) ==
    IF rmOk
    THEN [files |-> files \ {source_path},
          entry |-> [log_entry EXCEPT ![5] = Append(@, "MOVED/DELETED")],
          rows  |-> <<>>,
          ret   |-> TRUE]
    ELSE LET e == [log_entry EXCEPT ![5] = Append(@, "ERROR DELETING SOURCE")]
         IN  [files |-> files,
              entry |-> e,
              rows  |-> <<LogRow(e)>>,
              ret   |-> FALSE]

(***************************************************************************)
(* process_files, part 1: collect and group the files.                     *)
(***************************************************************************)
\* os.walk over one source root: the (root, directory, file name) triples in
\* the order the three nested loops visit them
WalkOf(source_dir_norm, files) ==
    LET dirs == SelectSeq(DirOrder, LAMBDA d : IsPrefix(source_dir_norm, d))
        inDir(d) == SelectSeq(FileOrder, LAMBDA f : f.dir = d /\ PathOf(f) \in files)
        RECURSIVE Cat(_)
        Cat(i) == IF i > Len(dirs) THEN <<>>
                  ELSE [k \in 1..Len(inDir(dirs[i])) |->
                           [source_dir |-> source_dir_norm, root |-> dirs[i],
                            filename |-> inDir(dirs[i])[k].name]] \o Cat(i + 1)
    IN  Cat(1)

RECURSIVE CandidatesStopAtMissing(_, _, _)
CandidatesStopAtMissing(source_dirs, i, files) ==
    IF i > Len(source_dirs) THEN <<>>
    ELSE IF ~ isdir(source_dirs[i]) THEN <<>>
    ELSE WalkOf(source_dirs[i], files) \o CandidatesStopAtMissing(source_dirs, i + 1, files)

RECURSIVE Candidates(_, _, _)
Candidates(source_dirs, i, files) ==
    IF i > Len(source_dirs) THEN <<>>
    ELSE (IF isdir(source_dirs[i]) THEN WalkOf(source_dirs[i], files) ELSE <<>>)
         \o Candidates(source_dirs, i + 1, files)

\* the grouping key of one file
GroupKey(mode, source_dir_norm, mod_dt, rel_sub_path) ==
    IF mode = "copy"
    THEN <<source_dir_norm, COPY_TIME_SUBDIR_FORMAT(mod_dt), rel_sub_path>>
    ELSE <<source_dir_norm, ARCHIVE_TIME_SUBDIR_FORMAT(mod_dt), ArchiveBaseName(mod_dt)>>

\* file_groups[key].append(rec) on an insertion-ordered dict
AddToGroup(gs, key, rec) ==
    IF \E k \in 1..Len(gs) : gs[k].key = key
    THEN [k \in 1..Len(gs) |->
             IF gs[k].key = key THEN [gs[k] EXCEPT !.files = Append(@, rec)] ELSE gs[k]]
    ELSE Append(gs, [key |-> key, files |-> <<rec>>])

\* the membership test of files_to_process
AlreadySeenNever(source_path, seen) == FALSE
AlreadySeen(source_path, seen) == source_path \in seen

RECURSIVE Collect(_, _, _, _, _, _)
Collect(c, cands, i, gs, seen, unreadable) ==
    IF i > Len(cands) THEN gs
    ELSE
    LET cand        == cands[i]
        source_path == cand.root \o <<cand.filename>>
        rel_sub_path == relpath(cand.root, cand.source_dir)
    IN  IF AlreadySeen(source_path, seen)
        THEN Collect(c, cands, i + 1, gs, seen, unreadable)
        ELSE IF ~ \E k \in 1..Len(c.patterns) : fnmatch(cand.filename, c.patterns[k])
        THEN Collect(c, cands, i + 1, gs, seen, unreadable)
        ELSE IF source_path \in unreadable
        THEN Collect(c, cands, i + 1, gs, seen, unreadable)
        ELSE
        LET mod_timestamp == mtime[source_path]
            mod_dt == fromtimestamp(mod_timestamp)
            key == GroupKey(c.mode, cand.source_dir, mod_dt, rel_sub_path)
            rec == [source_path |-> source_path, filename |-> cand.filename,
                    mod_dt |-> mod_dt, rel_sub_path |-> rel_sub_path,
                    mod_timestamp |-> mod_timestamp]
        IN  Collect(c, cands, i + 1, AddToGroup(gs, key, rec),
                    seen \cup {source_path}, unreadable)

file_groups(c, files, unreadable) ==
    Collect(c, Candidates(c.source_dirs, 1, files), 1, <<>>, {}, unreadable)

(***************************************************************************)
(* The inputs: settings, modification times and the operations that may    *)
(* raise.  Every setting and every assignment of modification times is     *)
(* run without I/O errors; the settings of FaultConfigs are also run with  *)
(* every kind of I/O error possible at every operation.                    *)
(***************************************************************************)
RECURSIVE DaysBefore(_)
DaysBefore(m) == IF m = 1 THEN 0 ELSE MonthLen[m - 1] + DaysBefore(m - 1)

\* the hour count of month M, day D, hour H of 2025
HoursAt(M, D, H) == (DaysBefore(M) + D - 1) * 24 + H

Now0    == HoursAt(3, 10, 12)                    \* the first run starts here
T_eq    == Now0 - 24 * MIN_DELETE_AGE_DAYS       \* exactly 30 days old: 02-08 12h
T_old   == T_eq - 1                              \* 30 days and an hour: 02-08 11h
T_young == HoursAt(2, 28, 12)                    \* 10 days old, same month
T_jan   == HoursAt(1, 8, 12)                     \* 61 days old, same day of month

MTimes ==
    { m \in [AllPaths -> {T_old, T_eq, T_young, T_jan}] :
        /\ m[RA \o <<"x.log">>] = T_old
        /\ m[RA \o <<"y.log">>] \in {T_old, T_eq, T_young}
        /\ m[RA \o <<"n.txt">>] = T_old
        /\ m[RS \o <<"x.log">>] \in {T_eq, T_jan}
        /\ m[RB \o <<"x.log">>] \in {T_old, T_young}
        /\ \A n \in {"a.csv", "b.txt", "c.CSV"} : m[RC \o <<n>>] = T_old }

FaultMTimes ==
    { m \in MTimes :
        /\ m[RB \o <<"x.log">>] = T_old
        /\ \/ m[RA \o <<"y.log">>] = T_eq /\ m[RS \o <<"x.log">>] = T_jan
           \/ m[RA \o <<"y.log">>] = T_old /\ m[RS \o <<"x.log">>] = T_eq }

SourceDirLists == {<<>>, <<RA>>, <<RA, RS>>, <<RS, RA>>, <<RA, RB>>, <<RG, RB>>, <<RA, RA>>}

Configs ==
    [source_dirs : SourceDirLists,
     patterns : {<<"*.log">>},
     mode : {"copy", "archive"},
     action : {"copy", "move"},
     delete_age_days : {MIN_DELETE_AGE_DAYS, MIN_DELETE_AGE_DAYS + 1}]

FaultConfigs ==
    { c \in Configs : /\ c.source_dirs \in {<<RA, RS>>, <<RA, RB>>, <<RG, RB>>}
                      /\ c.delete_age_days = MIN_DELETE_AGE_DAYS }

FaultKinds == {"getmtime", "makedirs", "copy2", "open", "add", "close", "remove", "log"}

\* the files whose os.path.getmtime may raise
MayBeUnreadable == {RA \o <<"y.log">>}

\* the results an operation of the given kind can have: TRUE is success
Results(kind) == IF kind \in faults THEN {TRUE, FALSE} ELSE {TRUE}

(***************************************************************************)
(* State changes shared by the steps.                                      *)
(***************************************************************************)
Put(f, k, v) == [x \in (DOMAIN f) \cup {k} |-> IF x = k THEN v ELSE f[x]]

current_runtime_str == fromtimestamp(now)

\* delete_age_threshold = datetime.now() - timedelta(days=delete_age_days_int)
delete_age_threshold == fromtimestamp(now - 24 * cfg.delete_age_days)

FirstPc == IF cfg.mode = "copy" THEN "copy" ELSE "open"

\* the for loop over file_groups.items() moves on, or the run is complete
NextGroup ==
    IF gi < Len(groups)
    THEN /\ gi' = gi + 1 /\ fi' = 1 /\ pc' = FirstPc
    ELSE /\ gi' = 0 /\ fi' = 0 /\ pc' = "idle"

\* write_log_entry is handed rows: the run's rows grow; lgOk is FALSE when a
\* CSV write raised, which write_log_entry catches
Logged(rows, lgOk) ==
    /\ runLog' = runLog \o rows
    /\ logLost' = (logLost \/ (rows # <<>> /\ ~ lgOk))

\* nothing has run yet
BeforeFirstRun ==
    /\ srcFiles = AllPaths
    /\ copied = [p \in {} |-> 0]
    /\ tars = [p \in {} |-> 0]
    /\ pc = "idle"
    /\ run = 0
    /\ now = Now0
    /\ groups = <<>>
    /\ gi = 0
    /\ fi = 0
    /\ filesInArchive = {}
    /\ tarMode = "w"
    /\ runLog = <<>>
    /\ outcome = [p \in AllPaths |-> "none"]
    /\ delTried = {}
    /\ removed = {}
    /\ escaped = FALSE
    /\ logLost = FALSE
    /\ mtimeErr = {}
    /\ total_processed_count = 0
    /\ openFailed = {}
    /\ failedBefore = {}

\* the file names of these settings are in lower case, on which normcase is
\* the identity: the platform makes no difference to their runs
\* no front end: process_files is called with the settings directly
SchedulerIdle ==
    /\ fields = [source_dirs |-> "", target_dir |-> "", interval |-> "", delete_age |-> ""]
    /\ is_running = FALSE
    /\ jobs = <<>>
    /\ timers = 0
    /\ stack = <<>>
    /\ cli = "off"
    /\ usedDays = {}
    /\ clicks = 0
    /\ edits = 0

NoFrontEnd == front = "none" /\ SchedulerIdle

\* the log itself is not looked at: the rows handed to write_log_entry are in runLog
NoLog ==
    /\ logDay = 0
    /\ logFiles = [d \in {} |-> <<>>]
    /\ LOG_HISTORY = <<>>
    /\ nLogged = 0

\* SECopy has not run
NoSECopy ==
    /\ secopied = [p \in {} |-> 0]
    /\ secopyRuns = 0

\* the network checker is not started
NoNetChecker ==
    /\ checking = FALSE
    /\ threads = <<>>
    /\ presses = 0

ToolsAtRest == NoLog /\ NoSECopy /\ NoNetChecker

Init ==
    /\ \/ cfg \in Configs /\ mtime \in MTimes /\ faults = {}
       \/ cfg \in FaultConfigs /\ mtime \in FaultMTimes /\ faults = FaultKinds
    /\ IS_WINDOWS = FALSE
    /\ BeforeFirstRun
    /\ NoFrontEnd
    /\ ToolsAtRest

\* the settings of the runs that select files by name, on either platform
MatchConfigs ==
    [source_dirs : {<<RC>>},
     patterns : {<<>>, <<"*.csv">>, <<"*.CSV">>, <<"?.csv">>, <<"*.txt", "*.csv">>},
     mode : {"copy", "archive"},
     action : {"copy", "move"},
     delete_age_days : {MIN_DELETE_AGE_DAYS}]

InitMatch ==
    /\ cfg \in MatchConfigs /\ mtime \in FaultMTimes /\ faults = {}
    /\ IS_WINDOWS \in BOOLEAN
    /\ BeforeFirstRun
    /\ NoFrontEnd
    /\ ToolsAtRest

(***************************************************************************)
(* process_files, lines 308-369: a run starts and groups the files.        *)
(***************************************************************************)
StartRun ==
    /\ pc = "idle"
    /\ run < MaxRuns
    /\ \E unreadable \in SUBSET (IF "getmtime" \in faults THEN MayBeUnreadable ELSE {}) :
         LET gs == IF cfg.source_dirs = <<>> THEN <<>>
                   ELSE file_groups(cfg, srcFiles, unreadable)
         IN  /\ groups' = gs
             /\ mtimeErr' = unreadable
             /\ IF gs = <<>>
                THEN gi' = 0 /\ fi' = 0 /\ pc' = "idle"
                ELSE gi' = 1 /\ fi' = 1 /\ pc' = FirstPc
    /\ run' = run + 1
    /\ now' = Now0 + run
    /\ runLog' = <<>>
    /\ outcome' = [p \in AllPaths |-> "none"]
    /\ delTried' = {}
    /\ removed' = {}
    /\ escaped' = FALSE
    /\ logLost' = FALSE
    /\ filesInArchive' = {}
    /\ tarMode' = "w"
    /\ total_processed_count' = 0
    /\ openFailed' = {}
    /\ failedBefore' = {p \in srcFiles : outcome[p] = "error"}
    /\ UNCHANGED <<cfg, faults, mtime, srcFiles, copied, tars, IS_WINDOWS>>
    /\ UNCHANGED <<schedVars, toolVars>>

(***************************************************************************)
(* process_files, lines 379-408: one file of a group in copy mode.         *)
(***************************************************************************)
\* str.title() of the action
title(a) == IF a = "move" THEN "Move" ELSE "Copy"

CopyTargetDirNoSubPath(key) == TargetDir \o <<basename(key[1])>> \o key[2]
CopyTargetDir(key) == TargetDir \o <<basename(key[1])>> \o key[2] \o key[3]

\* whether the copy branch removes the source after a successful copy
CopyRemovesAlways(action, f) == TRUE
CopyRemovesOnlyOld(action, f) == action = "move" /\ DtLess(f.mod_dt, delete_age_threshold)
CopyRemoves(action, f) == action = "move"

\* the for loop over the group's files moves on after a file, whether its
\* copy raised or not
CopyLoopAbortsOnError(ok) ==
    IF ~ ok THEN gi' = 0 /\ fi' = 0 /\ pc' = "idle"
    ELSE IF fi < Len(groups[gi].files)
    THEN fi' = fi + 1 /\ UNCHANGED <<pc, gi>>
    ELSE NextGroup
CopyLoopContinues(ok) ==
    IF fi < Len(groups[gi].files)
    THEN fi' = fi + 1 /\ UNCHANGED <<pc, gi>>
    ELSE NextGroup

CopyFile ==
    /\ pc = "copy"
    /\ LET g == groups[gi]
           f == g.files[fi]
           final_target_dir == CopyTargetDir(g.key)
           target_path == final_target_dir \o <<f.filename>>
           log_entry == <<current_runtime_str, f.source_path, f.filename, target_path, <<>> >>
       IN  \E mkOk \in Results("makedirs"), cpOk \in Results("copy2"),
              rmOk \in Results("remove"), lgOk \in Results("log") :
             /\ CopyLoopContinues(mkOk /\ cpOk)
             /\ IF mkOk /\ cpOk
                THEN
                  /\ copied' = Put(copied, Loc(target_path),
                                   [src |-> f.source_path, mtime |-> f.mod_timestamp])
                  /\ outcome' = [outcome EXCEPT ![f.source_path] = "ok"]
                  /\ LET e1 == [log_entry EXCEPT ![5] = <<"SUCCESS (Copied)">>]
                     IN  IF CopyRemoves(cfg.action, f)
                         THEN LET r == remove_source_file(srcFiles, f.source_path, e1, rmOk)
                              IN  /\ srcFiles' = r.files
                                  /\ delTried' = delTried \cup {f.source_path}
                                  /\ removed' = IF r.ret THEN removed \cup {f.source_path}
                                                ELSE removed
                                  /\ Logged(r.rows \o <<LogRow(r.entry)>>, lgOk)
                         ELSE /\ Logged(<<LogRow(e1)>>, lgOk)
                              /\ UNCHANGED <<srcFiles, delTried, removed>>
                  /\ total_processed_count' = total_processed_count + 1
                ELSE
                  /\ outcome' = [outcome EXCEPT ![f.source_path] = "error"]
                  /\ Logged(<<LogRow([log_entry EXCEPT ![5] =
                                <<"ERROR (" \o title(cfg.action) \o " failed)">>])>>, lgOk)
                  /\ UNCHANGED <<srcFiles, copied, delTried, removed, total_processed_count>>
    /\ failedBefore' = failedBefore \ {groups[gi].files[fi].source_path}
    /\ UNCHANGED <<cfg, faults, mtime, tars, run, now, groups, filesInArchive, tarMode,
                   escaped, mtimeErr, openFailed, IS_WINDOWS>>
    /\ UNCHANGED <<schedVars, toolVars>>

(***************************************************************************)
(* process_files, lines 411-428: a group's archive is opened.  os.makedirs *)
(* stands before the try statement: when it raises, the exception leaves   *)
(* process_files.                                                          *)
(***************************************************************************)
ArchivePath(key) ==
    TargetDir \o <<basename(key[1])>> \o key[2] \o <<key[3] \o ".tar">>

MemberNames(ap) == {tars[ap][k].name : k \in 1..Len(tars[ap])}

\* files_in_archive = {m.name for m in tar.getmembers()} if tar_mode == 'a' else set()
FilesInArchiveNone(ap, tar_mode) == {}
FilesInArchive(ap, tar_mode) == IF tar_mode = "a" THEN MemberNames(ap) ELSE {}

\* the except clause of lines 469-473 ends the group, and the for loop over
\* the groups goes on
CriticalAborts == gi' = 0 /\ fi' = 0 /\ pc' = "idle"
CriticalContinues == NextGroup

OpenArchive ==
    /\ pc = "open"
    /\ LET key == groups[gi].key
           archive_path == Loc(ArchivePath(key))
           tar_mode == IF archive_path \in DOMAIN tars THEN "a" ELSE "w"
           critical == <<current_runtime_str, key[1], key[3] \o ".tar", ArchivePath(key),
                         <<"CRITICAL ERROR (Archive Failed)">> >>
       IN  \E mkOk \in Results("makedirs"), opOk \in Results("open"), lgOk \in Results("log") :
             IF ~ mkOk
             THEN /\ escaped' = TRUE
                  /\ pc' = "idle" /\ gi' = 0 /\ fi' = 0
                  /\ UNCHANGED <<tars, filesInArchive, tarMode, runLog, logLost, openFailed>>
             ELSE IF ~ opOk
             THEN /\ Logged(<<LogRow(critical)>>, lgOk)
                  /\ openFailed' = openFailed \cup {gi}
                  /\ CriticalContinues
                  /\ UNCHANGED <<tars, filesInArchive, tarMode, escaped>>
             ELSE /\ tars' = IF tar_mode = "w" THEN Put(tars, archive_path, <<>>) ELSE tars
                  /\ filesInArchive' = FilesInArchive(archive_path, tar_mode)
                  /\ tarMode' = tar_mode
                  /\ pc' = "archive"
                  /\ UNCHANGED <<gi, fi, runLog, logLost, escaped, openFailed>>
    /\ UNCHANGED <<cfg, faults, mtime, srcFiles, copied, run, now, groups, outcome,
                   delTried, removed, mtimeErr, total_processed_count, failedBefore,
                   IS_WINDOWS>>
    /\ UNCHANGED <<schedVars, toolVars>>

(***************************************************************************)
(* process_files, lines 430-464: one file of a group in archive mode.      *)
(***************************************************************************)
\* whether the archive branch removes the source of a file just added
ArchiveRemovesAlways(action, mod_dt) == action = "move"
ArchiveRemovesAtThreshold(action, mod_dt) ==
    action = "move" /\ ~ DtLess(delete_age_threshold, mod_dt)
ArchiveRemoves(action, mod_dt) == action = "move" /\ DtLess(mod_dt, delete_age_threshold)

ArchiveFile ==
    /\ pc = "archive"
    /\ LET g == groups[gi]
           f == g.files[fi]
           archive_path == ArchivePath(g.key)
           arcname == relpath(f.source_path, g.key[1])
           file_log_entry == <<current_runtime_str, f.source_path, f.filename, archive_path, <<>> >>
       IN  \E addOk \in Results("add"), rmOk \in Results("remove"), lgOk \in Results("log") :
             IF arcname \in filesInArchive
             THEN /\ Logged(<<LogRow([file_log_entry EXCEPT ![5] =
                                <<"SKIPPED (Already in archive)">>])>>, lgOk)
                  /\ outcome' = [outcome EXCEPT ![f.source_path] = "skipped"]
                  /\ UNCHANGED <<srcFiles, tars, delTried, removed, total_processed_count>>
             ELSE IF addOk
             THEN /\ tars' = [tars EXCEPT ![Loc(archive_path)] =
                                Append(@, [name |-> arcname, src |-> f.source_path,
                                           mtime |-> f.mod_timestamp])]
                  /\ outcome' = [outcome EXCEPT ![f.source_path] = "ok"]
                  /\ total_processed_count' = total_processed_count + 1
                  /\ LET e1 == [file_log_entry EXCEPT ![5] = <<"SUCCESS (Archived)">>]
                     IN  IF ArchiveRemoves(cfg.action, f.mod_dt)
                         THEN LET r == remove_source_file(srcFiles, f.source_path, e1, rmOk)
                              IN  /\ srcFiles' = r.files
                                  /\ delTried' = delTried \cup {f.source_path}
                                  /\ removed' = IF r.ret THEN removed \cup {f.source_path}
                                                ELSE removed
                                  /\ Logged(r.rows \o <<LogRow(r.entry)>>, lgOk)
                         ELSE IF cfg.action = "move"
                         THEN /\ Logged(<<LogRow([e1 EXCEPT ![5] =
                                            Append(@, "Move SKIPPED, not older")])>>, lgOk)
                              /\ UNCHANGED <<srcFiles, delTried, removed>>
                         ELSE /\ Logged(<<LogRow(e1)>>, lgOk)
                              /\ UNCHANGED <<srcFiles, delTried, removed>>
             ELSE /\ outcome' = [outcome EXCEPT ![f.source_path] = "error"]
                  /\ Logged(<<LogRow([file_log_entry EXCEPT ![5] =
                                <<"ERROR (Archiving failed)">>])>>, lgOk)
                  /\ UNCHANGED <<srcFiles, tars, delTried, removed, total_processed_count>>
    /\ IF fi < Len(groups[gi].files)
       THEN fi' = fi + 1 /\ pc' = pc
       ELSE fi' = fi /\ pc' = "close"
    /\ failedBefore' = failedBefore \ {groups[gi].files[fi].source_path}
    /\ UNCHANGED <<cfg, faults, mtime, copied, run, now, groups, gi, filesInArchive,
                   tarMode, escaped, mtimeErr, openFailed, IS_WINDOWS>>
    /\ UNCHANGED <<schedVars, toolVars>>

(***************************************************************************)
(* process_files, lines 427 and 466-473: the with statement closes the     *)
(* tar; an exception of the close is logged once for the group.            *)
(***************************************************************************)
CloseArchive ==
    /\ pc = "close"
    /\ LET key == groups[gi].key
           critical == <<current_runtime_str, key[1], key[3] \o ".tar", ArchivePath(key),
                         <<"CRITICAL ERROR (Archive Failed)">> >>
       IN  \E clOk \in Results("close"), lgOk \in Results("log") :
             IF clOk
             THEN UNCHANGED <<runLog, logLost>>
             ELSE Logged(<<LogRow(critical)>>, lgOk)
    /\ NextGroup
    /\ UNCHANGED <<cfg, faults, mtime, srcFiles, copied, tars, run, now, groups,
                   filesInArchive, tarMode, outcome, delTried, removed, escaped, mtimeErr,
                   total_processed_count, openFailed, failedBefore, IS_WINDOWS>>
    /\ UNCHANGED <<schedVars, toolVars>>

Next ==
    \/ StartRun
    \/ CopyFile
    \/ OpenArchive
    \/ ArchiveFile
    \/ CloseArchive

Spec == Init /\ [][Next]_vars

SpecMatch == InitMatch /\ [][Next]_vars

(***************************************************************************)
(* The front ends: run_cli_mode and the App of run_gui, with the scheduler *)
(* of the schedule package.  A call of process_files is one step here; its *)
(* inside is the model above.  Intervals are counted in seconds.           *)
(*                                                                         *)
(* schedule.every(n).minutes.do(f) makes a job that is due n minutes from  *)
(* now and hands it to the scheduler; schedule.run_pending() runs, one     *)
(* after the other, the jobs that are due when it is called, and makes a   *)
(* job due again one interval after its function has returned;             *)
(* schedule.clear() takes every job from the scheduler.  How much time has *)
(* passed is not modelled: at a call of run_pending any of the jobs the    *)
(* scheduler holds may be due.                                             *)
(*                                                                         *)
(* The GUI is one thread.  Tk runs a callback (a button command, an after  *)
(* timer) when the main loop is idle, and also inside master.update(),     *)
(* which run_copy_wrapper calls before process_files.  stack holds the     *)
(* calls in progress; the log directory and log prefix widgets are filled. *)
(***************************************************************************)
MaxClicks == 3
MaxEdits == 1

MIN_INTERVAL_MINUTES == 30          \* 0.5 minutes, in seconds
DEFAULT_INTERVAL_MINUTES == 300     \* 5 minutes, in seconds
MAX_INTERVAL_MINUTES == 3600        \* 60 minutes, in seconds
DEFAULT_DELETE_AGE_DAYS == 30

\* float(text) of an interval in minutes, as seconds; ok is FALSE for ValueError
float(text) ==
    CASE text = "0.4" -> [ok |-> TRUE, val |-> 24]
      [] text = "0.5" -> [ok |-> TRUE, val |-> 30]
      [] text = "60"  -> [ok |-> TRUE, val |-> 3600]
      [] text = "61"  -> [ok |-> TRUE, val |-> 3660]
      [] OTHER        -> [ok |-> FALSE, val |-> 0]

\* int(text); ok is FALSE for ValueError, which int raises for "30.5"
int(text) ==
    CASE text = "0"  -> [ok |-> TRUE, val |-> 0]
      [] text = "5"  -> [ok |-> TRUE, val |-> 5]
      [] text = "29" -> [ok |-> TRUE, val |-> 29]
      [] text = "30" -> [ok |-> TRUE, val |-> 30]
      [] text = "45" -> [ok |-> TRUE, val |-> 45]
      [] OTHER       -> [ok |-> FALSE, val |-> 0]

IntervalTexts == {"abc", "0.4", "0.5", "60", "61"}
DeleteAgeTexts == {"abc", "30.5", "29", "30", "45"}

\* MIN_INTERVAL_MINUTES <= interval <= MAX_INTERVAL_MINUTES
IntervalAboveMin(interval) == MIN_INTERVAL_MINUTES <= interval
IntervalInRange(interval) ==
    MIN_INTERVAL_MINUTES <= interval /\ interval <= MAX_INTERVAL_MINUTES

Frame(fn, interval, days, todo) ==
    [fn |-> fn, interval |-> interval, days |-> days, todo |-> todo]

Top == stack[Len(stack)]
Caller == SubSeq(stack, 1, Len(stack) - 1)

\* Tk dispatches events: the main loop is idle, or the innermost call is a
\* run_copy_wrapper, which stands in master.update()
AtDispatch ==
    front = "gui" /\ (IF stack = <<>> THEN TRUE ELSE Top.fn = "run_copy_wrapper")

\* process_files is called with delete_age_days
Called(delete_age_days) ==
    usedDays' = usedDays \cup {delete_age_days}

\* schedule.every(interval).minutes.do(...)
Registered(interval, days) ==
    jobs' = Append(jobs, [interval |-> interval, days |-> days])

\* the process model rests while a front end is modelled
ProcIdle ==
    /\ cfg = [source_dirs |-> <<RA>>, patterns |-> <<"*.log">>, mode |-> "copy",
              action |-> "copy", delete_age_days |-> MIN_DELETE_AGE_DAYS]
    /\ mtime = (CHOOSE m \in FaultMTimes : TRUE)
    /\ IS_WINDOWS = FALSE
    /\ BeforeFirstRun

ProcAtRest == ProcIdle /\ faults = {}

InitSched ==
    /\ ProcAtRest
    /\ ToolsAtRest
    /\ front \in {"cli", "gui"}
    /\ fields \in [source_dirs : {"", "/s/a"}, target_dir : {"", "/out"},
                   interval : IntervalTexts, delete_age : DeleteAgeTexts]
    /\ is_running = FALSE
    /\ jobs = <<>>
    /\ timers = 0
    /\ stack = <<>>
    /\ cli = IF front = "cli" THEN "start" ELSE "off"
    /\ usedDays = {}
    /\ clicks = 0
    /\ edits = 0

(***************************************************************************)
(* run_cli_mode, lines 482-526: the settings are read and checked, and the *)
(* first job_wrapper() is called.                                          *)
(***************************************************************************)
run_cli_mode ==
    /\ front = "cli" /\ cli = "start"
    /\ LET i == float(fields.interval)
           d == int(fields.delete_age)
           valid == /\ i.ok /\ IntervalInRange(i.val)
                    /\ d.ok /\ d.val >= MIN_DELETE_AGE_DAYS
           interval == IF valid THEN i.val ELSE DEFAULT_INTERVAL_MINUTES
           delete_age_days == IF valid THEN d.val ELSE DEFAULT_DELETE_AGE_DAYS
       IN  IF fields.source_dirs = "" \/ fields.target_dir = "" \/ ~ (interval > 0)
           THEN cli' = "exited" /\ UNCHANGED stack
           ELSE /\ cli' = "first"
                /\ stack' = <<Frame("job_wrapper", interval, delete_age_days, 0)>>
    /\ UNCHANGED <<front, fields, is_running, jobs, timers, usedDays,
                   clicks, edits>>
    /\ UNCHANGED <<procVars, toolVars>>

(***************************************************************************)
(* job_wrapper, lines 521-527 and 538-550: process_files runs and returns  *)
(* or raises.  After the first call the job is registered (an exception    *)
(* ends the program); in the loop the scheduler keeps the job when it      *)
(* returns, and an exception is caught by the loop, which goes on.         *)
(***************************************************************************)
job_wrapper ==
    /\ front = "cli" /\ stack # <<>> /\ Top.fn = "job_wrapper"
    /\ Called(Top.days)
    /\ stack' = <<>>
    /\ \E ok \in BOOLEAN :
         IF cli = "first"
         THEN IF ok
              THEN Registered(Top.interval, Top.days) /\ cli' = "loop"
              ELSE cli' = "crashed" /\ UNCHANGED jobs
         ELSE UNCHANGED <<cli, jobs>>
    /\ UNCHANGED <<front, fields, is_running, timers, clicks, edits>>
    /\ UNCHANGED <<procVars, toolVars>>

\* the loop of lines 529-539: schedule.run_pending() starts a job that is due
cli_run_pending ==
    /\ front = "cli" /\ cli = "loop" /\ stack = <<>>
    /\ \E j \in 1..Len(jobs) :
         stack' = <<Frame("job_wrapper", jobs[j].interval, jobs[j].days, 0)>>
    /\ UNCHANGED <<front, fields, is_running, jobs, timers, cli, usedDays,
                   clicks, edits>>
    /\ UNCHANGED <<procVars, toolVars>>

\* lines 540-547: Ctrl+C ends the loop, whether a job is running or not
KeyboardInterrupt ==
    /\ front = "cli" /\ cli = "loop"
    /\ cli' = "stopped"
    /\ stack' = <<>>
    /\ UNCHANGED <<front, fields, is_running, jobs, timers, usedDays,
                   clicks, edits>>
    /\ UNCHANGED <<procVars, toolVars>>

(***************************************************************************)
(* toggle_copy_job, lines 811-849: the button is clicked.  Stop runs as a  *)
(* whole; Start checks the widgets and calls run_copy_wrapper, which reads *)
(* the widgets and stands in master.update().                              *)
(***************************************************************************)
toggle_copy_job ==
    /\ AtDispatch
    /\ clicks < MaxClicks
    /\ clicks' = clicks + 1
    /\ IF is_running
       THEN /\ jobs' = <<>>
            /\ is_running' = FALSE
            /\ UNCHANGED stack
       ELSE LET i == float(fields.interval)
                d == int(fields.delete_age)
            IN  IF /\ i.ok /\ d.ok
                   /\ IntervalInRange(i.val)
                   /\ d.val >= MIN_DELETE_AGE_DAYS
                   /\ fields.source_dirs # "" /\ fields.target_dir # ""
                THEN /\ stack' = stack \o <<Frame("toggle_copy_job", i.val, 0, 0),
                                            Frame("run_copy_wrapper", 0, d.val, 0)>>
                     /\ UNCHANGED <<jobs, is_running>>
                ELSE UNCHANGED <<stack, jobs, is_running>>
    /\ UNCHANGED <<front, fields, timers, cli, usedDays, edits>>
    /\ UNCHANGED <<procVars, toolVars>>

(***************************************************************************)
(* run_copy_wrapper, lines 806-809: master.update() has returned,          *)
(* process_files runs and returns or raises; an exception leaves the       *)
(* calling callback as well (Tk reports it).                               *)
(***************************************************************************)
run_copy_wrapper ==
    /\ front = "gui" /\ stack # <<>> /\ Top.fn = "run_copy_wrapper"
    /\ Called(Top.days)
    /\ \E ok \in BOOLEAN :
         stack' = IF ok THEN Caller ELSE SubSeq(stack, 1, Len(stack) - 2)
    /\ UNCHANGED <<front, fields, is_running, jobs, timers, cli, clicks, edits>>
    /\ UNCHANGED <<procVars, toolVars>>

\* toggle_copy_job, lines 850-858: the first run has returned
toggle_copy_job_schedules ==
    /\ front = "gui" /\ stack # <<>> /\ Top.fn = "toggle_copy_job"
    /\ Registered(Top.interval, 0)
    /\ is_running' = TRUE
    /\ timers' = timers + 1
    /\ stack' = Caller
    /\ UNCHANGED <<front, fields, cli, usedDays, clicks, edits>>
    /\ UNCHANGED <<procVars, toolVars>>

(***************************************************************************)
(* check_schedule, lines 863-866: a timer fires.  run_pending takes the    *)
(* jobs that are due (todo is their number); with none due the callback    *)
(* arms its timer again.                                                   *)
(***************************************************************************)
check_schedule ==
    /\ AtDispatch
    /\ timers > 0
    /\ IF ~ is_running
       THEN timers' = timers - 1 /\ UNCHANGED stack
       ELSE \E runnable \in 0..Len(jobs) :
              IF runnable = 0
              THEN UNCHANGED <<timers, stack>>
              ELSE /\ timers' = timers - 1
                   /\ stack' = Append(stack, Frame("check_schedule", 0, 0, runnable))
    /\ UNCHANGED <<front, fields, is_running, jobs, cli, usedDays, clicks,
                   edits>>
    /\ UNCHANGED <<procVars, toolVars>>

(***************************************************************************)
(* schedule.run_pending() inside check_schedule, then lines 868-882: the   *)
(* next job that was due is run; run_copy_wrapper reads the widgets and    *)
(* returns at once when the delete age is no integer.  After the last job  *)
(* check_schedule arms its timer again.                                    *)
(***************************************************************************)
run_pending ==
    /\ front = "gui" /\ stack # <<>> /\ Top.fn = "check_schedule"
    /\ IF Top.todo = 0
       THEN /\ timers' = timers + 1
            /\ stack' = Caller
       ELSE LET d == int(fields.delete_age)
                rest == [Top EXCEPT !.todo = @ - 1]
            IN  /\ stack' = IF d.ok
                            THEN Caller \o <<rest, Frame("run_copy_wrapper", 0, d.val, 0)>>
                            ELSE Append(Caller, rest)
                /\ UNCHANGED timers
    /\ UNCHANGED <<front, fields, is_running, jobs, cli, usedDays, clicks,
                   edits>>
    /\ UNCHANGED <<procVars, toolVars>>

\* the user types into the interval or the delete age widget while a job is
\* scheduled or a run is in progress (an edit before Start is another
\* initial content of the widget)
EditField ==
    /\ AtDispatch
    /\ is_running \/ stack # <<>>
    /\ edits < MaxEdits
    /\ edits' = edits + 1
    /\ \/ \E t \in IntervalTexts \ {fields.interval} :
            fields' = [fields EXCEPT !.interval = t]
       \/ \E t \in DeleteAgeTexts \ {fields.delete_age} :
            fields' = [fields EXCEPT !.delete_age = t]
    /\ UNCHANGED <<front, is_running, jobs, timers, stack, cli, usedDays,
                   clicks>>
    /\ UNCHANGED <<procVars, toolVars>>

NextSched ==
    \/ run_cli_mode
    \/ job_wrapper
    \/ cli_run_pending
    \/ KeyboardInterrupt
    \/ toggle_copy_job
    \/ run_copy_wrapper
    \/ toggle_copy_job_schedules
    \/ check_schedule
    \/ run_pending
    \/ EditField

SpecSched == InitSched /\ [][NextSched]_vars

(***************************************************************************)
(* The log: write_log_entry of SEArch-tool.py, lines 250-288, called with  *)
(* one row after the other.  The CSV file of the day is opened for append  *)
(* after os.path.exists has been asked; the header is written when the     *)
(* file did not exist then.  Every exception of the write is caught.  With *)
(* "log" in faults an operation of the write may raise: os.makedirs or     *)
(* open (nothing is changed), or the write itself after open has created   *)
(* the file (nothing, or only the header, has reached the file).  The GUI  *)
(* passes its deque of LOG_HISTORY_LIMIT rows, the CLI passes None.        *)
(***************************************************************************)
MaxLogged == 102
MaxLoggedFaulty == 4
MaxLogDay == 1

LOG_HISTORY_LIMIT == 100

LOG_HEADER ==
    <<"run date / time", "source folder", "source file name",
      "target folder (archived file name)", "status / error message">>

\* the time of day of the n-th event, and its TIME_FORMAT timestamp
Clock(n) == "12:00:" \o ToString(n)
Timestamp(n) == "2025-03-10 " \o Clock(n)

\* the row process_files hands over for its n-th event
data_row(n) ==
    <<Timestamp(n), "/s/a/f" \o ToString(n), "f" \o ToString(n),
      "/out/a/f" \o ToString(n), "SUCCESS " \o ToString(n)>>

\* str.split()[-1] of a timestamp: the time of day
SplitLast(ts) == Clock(CHOOSE n \in 1..(MaxLogged + 1) : Timestamp(n) = ts)

\* the row of the GUI history made from a data row (lines 278-284)
gui_row(row) == <<SplitLast(row[1]), row[3], row[2], row[4], row[5]>>

\* deque(maxlen=LOG_HISTORY_LIMIT).appendleft: a full deque drops its rightmost
appendleftNoLimit(dq, x) == <<x>> \o dq
appendleft(dq, x) ==
    IF Len(dq) >= LOG_HISTORY_LIMIT
    THEN <<x>> \o SubSeq(dq, 1, LOG_HISTORY_LIMIT - 1)
    ELSE <<x>> \o dq

\* how the write to the CSV file can end
CsvResults ==
    IF "log" \in faults THEN {"ok", "open raised", "write raised", "row raised"}
    ELSE {"ok"}

\* the CSV files after the write of one row
CsvAfter(files, day, row, result) ==
    LET file_exists == day \in DOMAIN files
        old == IF file_exists THEN files[day] ELSE <<>>
        head == IF file_exists THEN <<>> ELSE <<LOG_HEADER>>
    IN  CASE result = "open raised"  -> files
          [] result = "write raised" -> Put(files, day, old)
          [] result = "row raised"   -> Put(files, day, old \o head)
          [] OTHER                   -> Put(files, day, old \o head \o <<row>>)

InitLog ==
    /\ ProcIdle
    /\ faults \in {{}, {"log"}}
    /\ front \in {"cli", "gui"}
    /\ SchedulerIdle
    /\ ToolsAtRest

write_log_entry ==
    /\ nLogged < (IF "log" \in faults THEN MaxLoggedFaulty ELSE MaxLogged)
    /\ nLogged' = nLogged + 1
    /\ LET row == data_row(nLogged + 1)
       IN  /\ \E result \in CsvResults :
                 logFiles' = CsvAfter(logFiles, logDay, row, result)
           /\ LOG_HISTORY' = IF front = "gui"
                             THEN appendleft(LOG_HISTORY, gui_row(row))
                             ELSE LOG_HISTORY
    /\ UNCHANGED <<logDay, procVars, schedVars, copyVars, netVars>>

\* datetime.now() passes midnight: the next write goes to the next daily file
Midnight ==
    /\ logDay < MaxLogDay
    /\ logDay' = logDay + 1
    /\ UNCHANGED <<logFiles, LOG_HISTORY, nLogged, procVars, schedVars, copyVars, netVars>>

NextLog ==
    \/ write_log_entry
    \/ Midnight

SpecLog == InitLog /\ [][NextLog]_vars

(***************************************************************************)
(* The GUI of SECopy-tool.py: the App of run_gui, lines 492-545, with the  *)
(* scheduler of the schedule package.  It is the App of SEArch-tool.py in  *)
(* an earlier form: the interval is a whole number of minutes, there is no *)
(* delete age, and Stop calls schedule.clear(self.job).  schedule.clear(t) *)
(* with an argument takes from the scheduler the jobs that carry the tag   *)
(* t; a job made by schedule.every(n).minutes.do(f) carries no tag.        *)
(***************************************************************************)
SECopyIntervalTexts == {"abc", "0", "5"}

\* schedule.clear(tag) with a tag
clear(js, tag) == SelectSeq(js, LAMBDA j : tag \notin j.tags)

\* the job schedule.every(interval).minutes.do(self.run_copy_wrapper) makes
every_minutes_do(interval) == [interval |-> 60 * interval, days |-> 0, tags |-> {}]

SECopyAtDispatch ==
    front = "secopy" /\ (IF stack = <<>> THEN TRUE ELSE Top.fn = "run_copy_wrapper")

InitSECopyGui ==
    /\ ProcAtRest
    /\ ToolsAtRest
    /\ front = "secopy"
    /\ fields \in [source_dirs : {"", "/s/a"}, target_dir : {"", "/out"},
                   interval : SECopyIntervalTexts, delete_age : {""}]
    /\ is_running = FALSE
    /\ jobs = <<>>
    /\ timers = 0
    /\ stack = <<>>
    /\ cli = "off"
    /\ usedDays = {}
    /\ clicks = 0
    /\ edits = 0

(***************************************************************************)
(* toggle_copy_job, lines 506-528: the button is clicked.  Stop runs as a  *)
(* whole; self.job is the job the last Start has made.  Start checks the   *)
(* widgets and calls run_copy_wrapper, which stands in master.update().    *)
(***************************************************************************)
SECopy_toggle_copy_job ==
    /\ SECopyAtDispatch
    /\ clicks < MaxClicks
    /\ clicks' = clicks + 1
    /\ IF is_running
       THEN /\ jobs' = clear(jobs, jobs[Len(jobs)])
            /\ is_running' = FALSE
            /\ UNCHANGED stack
       ELSE LET i == int(fields.interval)
            IN  IF /\ i.ok
                   /\ fields.source_dirs # "" /\ fields.target_dir # "" /\ i.val > 0
                THEN /\ stack' = stack \o <<Frame("toggle_copy_job", i.val, 0, 0),
                                            Frame("run_copy_wrapper", 0, 0, 0)>>
                     /\ UNCHANGED <<jobs, is_running>>
                ELSE UNCHANGED <<stack, jobs, is_running>>
    /\ UNCHANGED <<front, fields, timers, cli, usedDays, edits>>
    /\ UNCHANGED <<procVars, toolVars>>

\* run_copy_wrapper, lines 499-504: master.update() has returned,
\* interval_copy_files runs and returns, or raises into the calling callback
SECopy_run_copy_wrapper ==
    /\ front = "secopy" /\ stack # <<>> /\ Top.fn = "run_copy_wrapper"
    /\ \E ok \in BOOLEAN :
         stack' = IF ok THEN Caller ELSE SubSeq(stack, 1, Len(stack) - 2)
    /\ UNCHANGED <<front, fields, is_running, jobs, timers, cli, usedDays, clicks, edits>>
    /\ UNCHANGED <<procVars, toolVars>>

\* toggle_copy_job, lines 529-536: the first run has returned
SECopy_toggle_copy_job_schedules ==
    /\ front = "secopy" /\ stack # <<>> /\ Top.fn = "toggle_copy_job"
    /\ jobs' = Append(jobs, every_minutes_do(Top.interval))
    /\ is_running' = TRUE
    /\ timers' = timers + 1
    /\ stack' = Caller
    /\ UNCHANGED <<front, fields, cli, usedDays, clicks, edits>>
    /\ UNCHANGED <<procVars, toolVars>>

\* check_schedule, lines 541-544: a timer fires; run_pending takes the jobs
\* that are due (todo is their number)
SECopy_check_schedule ==
    /\ SECopyAtDispatch
    /\ timers > 0
    /\ IF ~ is_running
       THEN timers' = timers - 1 /\ UNCHANGED stack
       ELSE \E runnable \in 0..Len(jobs) :
              IF runnable = 0
              THEN UNCHANGED <<timers, stack>>
              ELSE /\ timers' = timers - 1
                   /\ stack' = Append(stack, Frame("check_schedule", 0, 0, runnable))
    /\ UNCHANGED <<front, fields, is_running, jobs, cli, usedDays, clicks, edits>>
    /\ UNCHANGED <<procVars, toolVars>>

\* schedule.run_pending() inside check_schedule runs the next job that was
\* due; after the last one line 545 arms the timer again
SECopy_run_pending ==
    /\ front = "secopy" /\ stack # <<>> /\ Top.fn = "check_schedule"
    /\ IF Top.todo = 0
       THEN /\ timers' = timers + 1
            /\ stack' = Caller
       ELSE /\ stack' = Caller \o <<[Top EXCEPT !.todo = @ - 1],
                                    Frame("run_copy_wrapper", 0, 0, 0)>>
            /\ UNCHANGED timers
    /\ UNCHANGED <<front, fields, is_running, jobs, cli, usedDays, clicks, edits>>
    /\ UNCHANGED <<procVars, toolVars>>

NextSECopyGui ==
    \/ SECopy_toggle_copy_job
    \/ SECopy_run_copy_wrapper
    \/ SECopy_toggle_copy_job_schedules
    \/ SECopy_check_schedule
    \/ SECopy_run_pending

SpecSECopyGui == InitSECopyGui /\ [][NextSECopyGui]_vars

(***************************************************************************)
(* FETL-netchecker.py: the Start and Stop buttons of the network test and  *)
(* the threads they start.  checking is the flag self.checking, threads    *)
(* holds for every thread that was started the place it is at in           *)
(* _run_check_loop, "done" after it has returned.  The GUI thread runs     *)
(* start_check and stop_check as a whole; a check thread moves from one    *)
(* read of the flag to the next, at any speed.                             *)
(***************************************************************************)
MaxPresses == 5

Alive == {t \in 1..Len(threads) : threads[t] # "done"}

At(t, place) == t \in 1..Len(threads) /\ threads[t] = place

InitNet ==
    /\ ProcAtRest
    /\ NoFrontEnd
    /\ NoLog
    /\ NoSECopy
    /\ checking = FALSE
    /\ threads = <<>>
    /\ presses = 0

\* start_check, lines 317-356; valid: the input list is there, parses and
\* names no more than MAX_DEVICES hosts
start_check ==
    /\ presses < MaxPresses
    /\ presses' = presses + 1
    /\ IF checking
       THEN UNCHANGED <<checking, threads>>
       ELSE \E valid \in BOOLEAN :
              IF valid
              THEN /\ checking' = TRUE
                   /\ threads' = Append(threads, "while")
              ELSE UNCHANGED <<checking, threads>>
    /\ UNCHANGED <<procVars, schedVars, logVars, copyVars>>

\* stop_check, lines 392-401
stop_check ==
    /\ presses < MaxPresses
    /\ presses' = presses + 1
    /\ checking' = (IF checking THEN FALSE ELSE checking)
    /\ UNCHANGED <<threads, procVars, schedVars, logVars, copyVars>>

\* _run_check_loop, line 477: while self.checking, read when the thread
\* starts and after every time.sleep(0.5) of line 540
run_check_loop_while ==
    /\ \E t \in 1..Len(threads) :
         /\ At(t, "while") \/ At(t, "buffer")
         /\ threads' = [threads EXCEPT ![t] = IF checking THEN "hosts" ELSE "done"]
    /\ UNCHANGED <<checking, presses, procVars, schedVars, logVars, copyVars>>

\* lines 480-527: the hosts and ports are checked, or the loops are left at
\* a flag that reads False; both ways lead to line 529
run_check_loop_hosts ==
    /\ \E t \in 1..Len(threads) :
         /\ At(t, "hosts")
         /\ threads' = [threads EXCEPT ![t] = "countdown"]
    /\ UNCHANGED <<checking, presses, procVars, schedVars, logVars, copyVars>>

\* lines 529-537: the countdown, one second a step while the flag reads
\* True, skipped or left for line 540 when it reads False
run_check_loop_countdown ==
    /\ \E t \in 1..Len(threads) :
         /\ At(t, "countdown")
         /\ IF checking
            THEN \E last \in BOOLEAN :
                   threads' = [threads EXCEPT ![t] = IF last THEN "buffer" ELSE "countdown"]
            ELSE threads' = [threads EXCEPT ![t] = "buffer"]
    /\ UNCHANGED <<checking, presses, procVars, schedVars, logVars, copyVars>>

NextNet ==
    \/ start_check
    \/ stop_check
    \/ run_check_loop_while
    \/ run_check_loop_hosts
    \/ run_check_loop_countdown

SpecNet == InitNet /\ [][NextNet]_vars

(***************************************************************************)
(* SECopy-tool.py, interval_copy_files (lines 170-266), next to            *)
(* process_files of SEArch-tool.py in mode copy with action copy, on the   *)
(* same files.  secopied is what interval_copy_files has put under the     *)
(* target root, copied what process_files has put there; each tool is      *)
(* given a target root of its own that is empty at the start.              *)
(***************************************************************************)
MaxSECopyRuns == 1

\* line 84
TIME_SUBDIR_FORMAT(dt) == <<ToString(dt.Y), Pad2(dt.M), Pad2(dt.D), Pad2(dt.H)>>

\* str.startswith and str.endswith, character by character
startswith(chars, prefix) == IsPrefix(prefix, chars)
endswith(chars, suffix) ==
    /\ Len(suffix) <= Len(chars)
    /\ SubSeq(chars, Len(chars) - Len(suffix) + 1, Len(chars)) = suffix

\* line 181: the patterns that start with *
SECopyPatterns(patterns) == SelectSeq(patterns, LAMBDA p : startswith(Chars(p), <<"*">>))

\* line 217: the name ends with what follows the * of a pattern
SuffixMatch(filename, patterns) ==
    \E k \in 1..Len(patterns) : endswith(Chars(filename), Tail(Chars(patterns[k])))

\* lines 201-213
SECopyRelSubPath(root, source_dir_norm) ==
    IF root = source_dir_norm THEN <<".">>
    ELSE SubSeq(root, Len(source_dir_norm) + 1, Len(root))

\* lines 215-234 for the files of all walks in turn: every file whose name
\* matches is copied, a copy replaces what was at its target before
RECURSIVE SECopyFiles(_, _, _, _)
SECopyFiles(cands, i, patterns, done) ==
    IF i > Len(cands) THEN done
    ELSE
    LET cand == cands[i]
        source_path == cand.root \o <<cand.filename>>
        rel_sub_path == SECopyRelSubPath(cand.root, cand.source_dir)
    IN  IF ~ SuffixMatch(cand.filename, patterns)
        THEN SECopyFiles(cands, i + 1, patterns, done)
        ELSE
        LET mod_timestamp == mtime[source_path]
            time_sub_dir == TIME_SUBDIR_FORMAT(fromtimestamp(mod_timestamp))
            base_target_dir == TargetDir \o <<basename(cand.source_dir)>> \o time_sub_dir
            final_target_dir == base_target_dir \o rel_sub_path
            target_path == final_target_dir \o <<cand.filename>>
        IN  SECopyFiles(cands, i + 1, patterns,
                        Put(done, Loc(target_path),
                            [src |-> source_path, mtime |-> mod_timestamp]))

EquivSourceDirLists == SourceDirLists \cup {<<RC>>}

InitEquiv ==
    /\ cfg \in [source_dirs : EquivSourceDirLists,
                patterns : {<<"*.log">>, <<"*.csv">>},
                mode : {"copy"},
                action : {"copy"},
                delete_age_days : {MIN_DELETE_AGE_DAYS}]
    /\ mtime \in FaultMTimes /\ faults = {}
    /\ IS_WINDOWS \in BOOLEAN
    /\ BeforeFirstRun
    /\ NoFrontEnd
    /\ ToolsAtRest

\* one call of interval_copy_files with the settings of cfg, no I/O errors
interval_copy_files ==
    /\ secopyRuns < MaxSECopyRuns
    /\ secopyRuns' = secopyRuns + 1
    /\ secopied' = IF cfg.source_dirs = <<>> THEN secopied
                   ELSE SECopyFiles(Candidates(cfg.source_dirs, 1, srcFiles), 1,
                                    SECopyPatterns(cfg.patterns), secopied)
    /\ UNCHANGED <<procVars, schedVars, logVars, netVars>>

NextEquiv ==
    \/ StartRun
    \/ CopyFile
    \/ interval_copy_files

SpecEquiv == InitEquiv /\ [][NextEquiv]_vars

(***************************************************************************)
(* Vocabulary of the properties, stated without the operators above where  *)
(* a property is about what they compute.                                  *)
(***************************************************************************)
\* the files of the current run's groups, each with the root of its group
Grouped ==
    UNION { {<<groups[g].key[1], groups[g].files[k].source_path>> :
                 k \in 1..Len(groups[g].files)} : g \in 1..Len(groups) }

GroupedPaths == {gp[2] : gp \in Grouped}

RootOf(p) == (CHOOSE gp \in Grouped : gp[2] = p)[1]

\* how often a path occurs in the lists of all groups
RECURSIVE CountIn(_, _)
CountIn(seq, p) ==
    IF seq = <<>> THEN 0
    ELSE (IF Head(seq).source_path = p THEN 1 ELSE 0) + CountIn(Tail(seq), p)

RECURSIVE Occurrences(_, _)
Occurrences(g, p) ==
    IF g > Len(groups) THEN 0 ELSE CountIn(groups[g].files, p) + Occurrences(g + 1, p)

\* the rows of this run about one source file
RECURSIVE RowsOf(_, _)
RowsOf(rows, p) ==
    IF rows = <<>> THEN <<>>
    ELSE (IF Head(rows).source = p THEN <<Head(rows)>> ELSE <<>>) \o RowsOf(Tail(rows), p)

\* the age of a file at the start of the current run, in hours, and the threshold
AgeHours(p) == now - mtime[p]
ThresholdHours == 24 * cfg.delete_age_days

\* the file's content is in the target: as a copy, or as a member of a tar
Materialized(p) ==
    IF cfg.mode = "copy"
    THEN \E t \in DOMAIN copied : copied[t].src = p
    ELSE \E a \in DOMAIN tars : \E k \in 1..Len(tars[a]) : tars[a][k].src = p

RunComplete == run >= 1 /\ pc = "idle" /\ ~ escaped

\* the first configured root that exists and lies at or above the file
DiscoveryRoot(p) ==
    LET dir == SubSeq(p, 1, Len(p) - 1)
        idx == {i \in 1..Len(cfg.source_dirs) :
                   cfg.source_dirs[i] \in {RA, RS, RB, RC} /\ IsPrefix(cfg.source_dirs[i], dir)}
    IN  cfg.source_dirs[CHOOSE i \in idx : \A j \in idx : i <= j]

Reachable(p) ==
    \E i \in 1..Len(cfg.source_dirs) :
        cfg.source_dirs[i] \in {RA, RS, RB, RC} /\ IsPrefix(cfg.source_dirs[i], SubSeq(p, 1, Len(p) - 1))

\* the calendar of the four modification times, written out
BucketOf(t) ==
    CASE t = T_old   -> <<"2025", "02", "08", "11">>
      [] t = T_eq    -> <<"2025", "02", "08", "12">>
      [] t = T_young -> <<"2025", "02", "28", "12">>
      [] t = T_jan   -> <<"2025", "01", "08", "12">>

\* the archives that hold a member made from the file
TarsOf(p) == {a \in DOMAIN tars : \E k \in 1..Len(tars[a]) : tars[a][k].src = p}

(***************************************************************************)
(* C1.  With action=move a source file is removed only in the step in      *)
(* which its own copy (copy mode) or its own tar add (archive mode)        *)
(* succeeded in this run; a file whose copy/add raised or that was skipped *)
(* is not removed; with action=copy no source file is ever removed.        *)
(***************************************************************************)
C1_RemovedOnlyAfterOwnSuccess ==
    [][ /\ \A p \in srcFiles \ srcFiles' :
              /\ cfg.action = "move"
              /\ outcome[p] = "none" /\ outcome'[p] = "ok"
              /\ Materialized(p)'
        /\ \A p \in AllPaths :
              outcome'[p] \in {"error", "skipped"} => (p \in srcFiles => p \in srcFiles')
        /\ srcFiles' \subseteq srcFiles ]_vars

C1_Witness ==
    /\ cfg.action = "move"
    /\ \E p \in AllPaths : p \notin srcFiles /\ p \in removed /\ outcome[p] = "ok"
    /\ \E q \in AllPaths : q \in srcFiles /\ outcome[q] = "error"

(***************************************************************************)
(* C2.  In archive mode with action=move a source file is removed only if  *)
(* now - modifiedAt >= the delete-age threshold, now taken at the start of *)
(* the run: no younger file is ever removed.                               *)
(***************************************************************************)
C2_RemovedOnlyIfOldEnough ==
    [][ cfg.mode = "archive" =>
            \A p \in srcFiles \ srcFiles' : AgeHours(p) >= ThresholdHours ]_vars

C2_Witness ==
    /\ cfg.mode = "archive" /\ cfg.action = "move"
    /\ \E p \in removed : p \notin srcFiles /\ AgeHours(p) >= ThresholdHours
    /\ \E q \in srcFiles : outcome[q] = "ok" /\ AgeHours(q) < ThresholdHours

(***************************************************************************)
(* C3.  As claimed: in archive mode with action=move every file newly      *)
(* added in a run whose age is at least the threshold (the threshold       *)
(* itself included) has its source deletion attempted in that run.         *)
(***************************************************************************)
C3_AsClaimed ==
    (cfg.mode = "archive" /\ cfg.action = "move") =>
        \A p \in AllPaths :
            outcome[p] = "ok" =>
                IF AgeHours(p) >= ThresholdHours
                THEN p \in delTried
                ELSE /\ p \notin delTried /\ p \in srcFiles
                     /\ \E k \in 1..Len(runLog) :
                          /\ runLog[k].source = p
                          /\ runLog[k].status = <<"SUCCESS (Archived)", "Move SKIPPED, not older">>

(***************************************************************************)
(* C3, amended.  In archive mode with action=move every file newly added   *)
(* in a run whose age is strictly greater than the threshold has its       *)
(* source deletion attempted in that run; every newly added file whose age *)
(* is at most the threshold (the threshold itself included) is logged as   *)
(* archived with the 'Move SKIPPED' note and left in the source.           *)
(***************************************************************************)
C3_StrictlyOlderIsDeleted ==
    (cfg.mode = "archive" /\ cfg.action = "move") =>
        \A p \in AllPaths :
            outcome[p] = "ok" =>
                IF AgeHours(p) > ThresholdHours
                THEN p \in delTried
                ELSE /\ p \notin delTried /\ p \in srcFiles
                     /\ \E k \in 1..Len(runLog) :
                          /\ runLog[k].source = p
                          /\ runLog[k].status = <<"SUCCESS (Archived)", "Move SKIPPED, not older">>

C3_Witness ==
    /\ cfg.mode = "archive" /\ cfg.action = "move"
    /\ \E p \in AllPaths : outcome[p] = "ok" /\ AgeHours(p) = ThresholdHours /\ p \notin delTried
    /\ \E q \in AllPaths : outcome[q] = "ok" /\ AgeHours(q) = ThresholdHours + 1 /\ q \in delTried
    /\ \E r \in AllPaths : outcome[r] = "ok" /\ AgeHours(r) < ThresholdHours /\ r \in srcFiles

(***************************************************************************)
(* C4.  A second run in archive mode with action=copy, with no I/O error   *)
(* and an unchanged source set, adds no member to any archive and logs     *)
(* every file SKIPPED; each file's archive holds exactly one member of the *)
(* file's archive-relative name, as after the first run.                   *)
(***************************************************************************)
SecondArchiveRun == cfg.mode = "archive" /\ cfg.action = "copy" /\ faults = {} /\ run >= 2

\* the archive of a grouped file, and the members of it that bear the file's name
TarPathOf(gp) ==
    <<"out", gp[1][Len(gp[1])], BucketOf(mtime[gp[2]])[1], BucketOf(mtime[gp[2]])[2],
      BucketOf(mtime[gp[2]])[1] \o BucketOf(mtime[gp[2]])[2] \o BucketOf(mtime[gp[2]])[3]
          \o ".tar">>

MembersNamed(gp) ==
    {k \in 1..Len(tars[TarPathOf(gp)]) :
        tars[TarPathOf(gp)][k].name = SubSeq(gp[2], Len(gp[1]) + 1, Len(gp[2]))}

AllSkipped ==
    /\ \A k \in 1..Len(runLog) : runLog[k].status = <<"SKIPPED (Already in archive)">>
    /\ pc = "idle" =>
          \A gp \in Grouped :
              /\ Len(RowsOf(runLog, gp[2])) = 1
              /\ TarPathOf(gp) \in DOMAIN tars
              /\ Cardinality(MembersNamed(gp)) = 1

C5_NothingEscapes == ~ escaped

(***************************************************************************)
(* C6.  In copy mode a file whose copy raised gets exactly one log row, an *)
(* ERROR row, and every other grouped file of the run is still copied to   *)
(* its expected target path and logged SUCCESS: at the end of the run no   *)
(* file of any group is left unprocessed.                                  *)
(***************************************************************************)
ExpectedCopyPath(p) ==
    <<"out", DiscoveryRoot(p)[Len(DiscoveryRoot(p))]>> \o BucketOf(mtime[p])
        \o SubSeq(p, Len(DiscoveryRoot(p)) + 1, Len(p))

C6_CopyFailureIsPerFile ==
    (cfg.mode = "copy" /\ RunComplete) =>
        \A p \in GroupedPaths :
            \/ /\ outcome[p] = "error"
               /\ Len(RowsOf(runLog, p)) = 1
               /\ RowsOf(runLog, p)[1].status[1] \in {"ERROR (Copy failed)", "ERROR (Move failed)"}
            \/ /\ outcome[p] = "ok"
               /\ ExpectedCopyPath(p) \in DOMAIN copied
               /\ (\A q \in GroupedPaths \ {p} : ExpectedCopyPath(q) # ExpectedCopyPath(p))
                     => copied[ExpectedCopyPath(p)].src = p
               /\ Len(RowsOf(runLog, p)) >= 1
               /\ \A k \in 1..Len(RowsOf(runLog, p)) :
                     /\ RowsOf(runLog, p)[k].status[1] = "SUCCESS (Copied)"
                     /\ Loc(RowsOf(runLog, p)[k].target) = ExpectedCopyPath(p)

C6_Witness ==
    /\ cfg.mode = "copy" /\ RunComplete
    /\ Len(groups) >= 2
    /\ outcome[groups[1].files[1].source_path] = "error"
    /\ \A g \in 2..Len(groups) : \A k \in 1..Len(groups[g].files) :
           outcome[groups[g].files[k].source_path] = "ok"
    /\ Cardinality({p \in GroupedPaths : outcome[p] = "ok"}) >= 2

(***************************************************************************)
(* C7.  In copy mode with action=move every file whose copy succeeded has  *)
(* its source deletion attempted in the same run, whatever its age and     *)
(* whatever the delete-age threshold.                                      *)
(***************************************************************************)
C7_CopyMoveIsUnconditional ==
    (cfg.mode = "copy" /\ cfg.action = "move") =>
        \A p \in AllPaths : outcome[p] = "ok" => p \in delTried

C7_Witness ==
    /\ cfg.mode = "copy" /\ cfg.action = "move"
    /\ cfg.delete_age_days > MIN_DELETE_AGE_DAYS
    /\ \E p \in AllPaths :
          outcome[p] = "ok" /\ AgeHours(p) < ThresholdHours /\ p \in delTried /\ p \notin srcFiles

(***************************************************************************)
(* C8.  Within one run a source path is in at most one group's list, also  *)
(* when the configured roots overlap or repeat; it is grouped under the    *)
(* first configured root that reaches it; and every matching file below a  *)
(* configured root whose modification time can be read is in some group.   *)
(***************************************************************************)
C8_EachFileInOneGroup ==
    run >= 1 =>
        /\ \A p \in AllPaths : Occurrences(1, p) <= 1
        /\ \A gp \in Grouped : gp[1] = DiscoveryRoot(gp[2])
        /\ \A p \in srcFiles :
              (Reachable(p) /\ p[Len(p)] \in {"x.log", "y.log"} /\ p \notin mtimeErr)
                  => Occurrences(1, p) = 1

C8_Witness ==
    /\ run >= 1
    /\ cfg.source_dirs = <<RA, RS>>
    /\ <<RA, RS \o <<"x.log">> >> \in Grouped
    /\ mtimeErr # {}
    /\ Cardinality(GroupedPaths) = 2

(***************************************************************************)
(* C9.  In archive mode two files of the same source root that a run adds  *)
(* are in the same tar if and only if their modification times fall on the *)
(* same calendar day; files of the same month and different days are in    *)
(* two tars named YYYYMMDD.tar of the same directory                       *)
(* target/sourceRootName/YYYY/MM.                                          *)
(***************************************************************************)
DayOf(p) == BucketOf(mtime[p])[1] \o BucketOf(mtime[p])[2] \o BucketOf(mtime[p])[3]

ExpectedTar(p) ==
    <<"out", RootOf(p)[Len(RootOf(p))], BucketOf(mtime[p])[1], BucketOf(mtime[p])[2],
      DayOf(p) \o ".tar">>

C9_SameTarIffSameDay ==
    cfg.mode = "archive" =>
        \A p \in GroupedPaths : \A q \in GroupedPaths :
            (outcome[p] = "ok" /\ outcome[q] = "ok" /\ RootOf(p) = RootOf(q)) =>
                /\ TarsOf(p) = {ExpectedTar(p)}
                /\ TarsOf(q) = {ExpectedTar(q)}
                /\ (TarsOf(p) = TarsOf(q)) <=> (mtime[p] \div 24 = mtime[q] \div 24)

C9_Witness ==
    /\ cfg.mode = "archive"
    /\ \E p \in GroupedPaths : \E q \in GroupedPaths : \E r \in GroupedPaths :
          /\ outcome[p] = "ok" /\ outcome[q] = "ok" /\ outcome[r] = "ok"
          /\ RootOf(p) = RootOf(q) /\ RootOf(q) = RootOf(r)
          /\ mtime[p] # mtime[q] /\ TarsOf(p) = TarsOf(q)
          /\ TarsOf(r) # TarsOf(p)
          /\ SubSeq(ExpectedTar(r), 1, 4) = SubSeq(ExpectedTar(p), 1, 4)

(***************************************************************************)
(* C10.  In copy mode the step that copies a file puts it at               *)
(* target/sourceRootName/YYYY/MM/DD/HH/relativeSubPath/fileName: the hour  *)
(* bucket is that of the file's own modification time and the sub path is  *)
(* its directory relative to the root under which it was discovered.       *)
(***************************************************************************)
C10_CopyTargetPath ==
    [][ cfg.mode = "copy" =>
          \A p \in AllPaths :
              (outcome[p] = "none" /\ outcome'[p] = "ok") =>
                  /\ ExpectedCopyPath(p) \in DOMAIN copied'
                  /\ copied'[ExpectedCopyPath(p)] = [src |-> p, mtime |-> mtime[p]]
                  /\ \A t \in DOMAIN copied' :
                        t # ExpectedCopyPath(p) => (t \in DOMAIN copied /\ copied'[t] = copied[t])
                  /\ Loc(runLog'[Len(runLog')].target) = ExpectedCopyPath(p) ]_vars

C10_Witness ==
    /\ cfg.mode = "copy"
    /\ cfg.source_dirs = <<RA, RS>>
    /\ outcome[RS \o <<"x.log">>] = "ok"
    /\ mtime[RS \o <<"x.log">>] = T_jan
    /\ <<"out", "a", "2025", "01", "08", "12", "sub", "x.log">> \in DOMAIN copied
    /\ outcome[RA \o <<"x.log">>] = "ok"
    /\ <<"out", "a", "2025", "02", "08", "11", "x.log">> \in DOMAIN copied

(***************************************************************************)
(* C11.  As claimed: every grouped file has at most one log row in a run,  *)
(* and a file the run has dealt with (copied, added, skipped, failed, or   *)
(* copied/added with a failed source removal) has exactly one.             *)
(***************************************************************************)
C11_OneRowPerFile ==
    \A p \in GroupedPaths :
        /\ Len(RowsOf(runLog, p)) <= 1
        /\ outcome[p] # "none" => Len(RowsOf(runLog, p)) = 1

(***************************************************************************)
(* C12.  The step in which the removal of a source fails after its copy or *)
(* tar add succeeded leaves the file materialized and in the source,       *)
(* counts it as processed, logs it with a status that starts with SUCCESS  *)
(* and ends with the deletion-error suffix, and moves on to the next file  *)
(* of the group (or ends the group).                                       *)
(***************************************************************************)
MovesOnFrom(g, k) ==
    IF k < Len(groups[g].files) THEN gi' = g /\ fi' = k + 1 /\ pc' = pc
    ELSE IF cfg.mode = "archive" THEN gi' = g /\ pc' = "close"
    ELSE IF g < Len(groups) THEN gi' = g + 1 /\ fi' = 1 /\ pc' = "copy"
    ELSE pc' = "idle"

C12_FailedDeletionKeepsSuccess ==
    [][ \A p \in AllPaths :
          (p \in delTried' /\ p \notin delTried /\ p \notin removed') =>
              /\ outcome'[p] = "ok"
              /\ p \in srcFiles'
              /\ Materialized(p)'
              /\ total_processed_count' = total_processed_count + 1
              /\ Len(RowsOf(runLog', p)) >= 1
              /\ \A k \in 1..Len(RowsOf(runLog', p)) :
                    /\ RowsOf(runLog', p)[k].status[1] \in
                          {"SUCCESS (Copied)", "SUCCESS (Archived)"}
                    /\ RowsOf(runLog', p)[k].status[Len(RowsOf(runLog', p)[k].status)]
                          = "ERROR DELETING SOURCE"
              /\ MovesOnFrom(gi, fi) ]_vars

C12_Witness ==
    /\ RunComplete
    /\ Len(groups) >= 1
    /\ Len(groups[1].files) >= 2
    /\ groups[1].files[1].source_path \in delTried \ removed
    /\ groups[1].files[1].source_path \in srcFiles
    /\ outcome[groups[1].files[2].source_path] = "ok"
    /\ total_processed_count >= 2

(***************************************************************************)
(* C13.  In archive mode the step in which the opening of a group's tar    *)
(* fails writes one CRITICAL row, changes no archive and no source, and    *)
(* goes on to the next group; the group has exactly one row of its own,    *)
(* the CRITICAL one, none of its files is added, logged or deleted in the  *)
(* run, and at the end of the run every file of every other group has been *)
(* dealt with.                                                             *)
(***************************************************************************)
GroupRows(g) ==
    {k \in 1..Len(runLog) : /\ runLog[k].source = groups[g].key[1]
                            /\ runLog[k].name = groups[g].key[3] \o ".tar"}

OpenFailureIsPerGroup ==
    /\ \A g \in openFailed :
          /\ Cardinality(GroupRows(g)) = 1
          /\ \A k \in GroupRows(g) : runLog[k].status[1] = "CRITICAL ERROR (Archive Failed)"
          /\ \A k \in 1..Len(groups[g].files) :
                /\ outcome[groups[g].files[k].source_path] = "none"
                /\ RowsOf(runLog, groups[g].files[k].source_path) = <<>>
                /\ groups[g].files[k].source_path \notin delTried
                /\ groups[g].files[k].source_path \in srcFiles
    /\ RunComplete =>
          \A g \in (1..Len(groups)) \ openFailed : \A k \in 1..Len(groups[g].files) :
              outcome[groups[g].files[k].source_path] # "none"

C13_OpenFailureSkipsTheGroup ==
    [][ cfg.mode = "archive" =>
          /\ (run' = run /\ openFailed' # openFailed) =>
                /\ tars' = tars /\ srcFiles' = srcFiles /\ outcome' = outcome
                /\ Len(runLog') = Len(runLog) + 1
                /\ IF gi < Len(groups) THEN gi' = gi + 1 /\ pc' = "open" ELSE pc' = "idle"
          /\ OpenFailureIsPerGroup' ]_vars

C13_Witness ==
    /\ cfg.mode = "archive" /\ cfg.action = "move" /\ RunComplete
    /\ openFailed = {1}
    /\ Len(groups) >= 2
    /\ \A g \in 2..Len(groups) : \A k \in 1..Len(groups[g].files) :
          outcome[groups[g].files[k].source_path] = "ok"
    /\ removed # {}

(***************************************************************************)
(* C14.  A configured root that does not exist gets no log row and does    *)
(* not end the run: every matching, readable file below an existing        *)
(* configured root is grouped, and at the end of the run every grouped     *)
(* file has been dealt with.                                               *)
(***************************************************************************)
MissingRoots == {cfg.source_dirs[i] : i \in 1..Len(cfg.source_dirs)} \ {RA, RS, RB, RC}

C14_MissingRootIsSkipped ==
    (run >= 1 /\ MissingRoots # {}) =>
        /\ \A k \in 1..Len(runLog) : \A r \in MissingRoots :
              ~ IsPrefix(r, runLog[k].source)
        /\ \A p \in srcFiles :
              (Reachable(p) /\ p[Len(p)] \in {"x.log", "y.log"} /\ p \notin mtimeErr)
                  => p \in GroupedPaths
        /\ RunComplete => \A p \in GroupedPaths : outcome[p] # "none" \/ openFailed # {}
        /\ (faults = {} /\ pc = "idle") =>
              \A p \in GroupedPaths : outcome[p] \in {"ok", "skipped"}

C14_Witness ==
    /\ cfg.source_dirs = <<RG, RB>> /\ RunComplete
    /\ outcome[RB \o <<"x.log">>] = "ok"
    /\ Len(runLog) = 1
    /\ runLog[1].source = RB \o <<"x.log">>

(***************************************************************************)
(* C20.  As claimed: a file below a configured root is selected (grouped)  *)
(* if and only if its base name matches one of the patterns, upper and     *)
(* lower case letters being different: "*.csv" selects a.csv, and neither  *)
(* b.txt nor c.CSV; an empty pattern list selects nothing.                 *)
(***************************************************************************)
\* the case-sensitive matches of the names and patterns used, written out
MatchesExactly(name, pattern) ==
    CASE pattern = "*.csv" -> name = "a.csv"
      [] pattern = "?.csv" -> name = "a.csv"
      [] pattern = "*.CSV" -> name = "c.CSV"
      [] pattern = "*.txt" -> name \in {"b.txt", "n.txt"}
      [] pattern = "*.log" -> name \in {"x.log", "y.log"}
      [] OTHER -> FALSE

C20_SelectedIffCaseSensitiveMatch ==
    run >= 1 =>
        \A p \in AllPaths :
            (Reachable(p) /\ p \notin mtimeErr /\ (p \in srcFiles \/ p \in removed)) =>
                (p \in GroupedPaths <=>
                    \E k \in 1..Len(cfg.patterns) : MatchesExactly(p[Len(p)], cfg.patterns[k]))

(***************************************************************************)
(* Vocabulary of the properties of the front ends.                         *)
(***************************************************************************)
\* the calls of the job function that are in progress
Invocations ==
    {k \in 1..Len(stack) : stack[k].fn \in {"job_wrapper", "run_copy_wrapper"}}

\* the settings texts that are in error, written out
ConfigError(f) ==
    \/ f.interval \notin {"0.5", "60"}
    \/ f.delete_age \notin {"30", "45"}
    \/ f.source_dirs = ""
    \/ f.target_dir = ""

\* the step is the start of the CLI, or a click on the button that reads Start
StartAttempt ==
    \/ front = "cli" /\ cli = "start" /\ cli' # "start"
    \/ front = "gui" /\ ~ is_running /\ clicks' = clicks + 1

(***************************************************************************)
(* C15.  As claimed: a start (of the CLI, or by the Start button) with a   *)
(* configuration error begins no call of the job function, and in the CLI  *)
(* no call of process_files is ever made or in progress.                   *)
(***************************************************************************)
C15_ConfigErrorIsFatal ==
    [][ /\ (StartAttempt /\ ConfigError(fields)) =>
              (stack' = stack /\ usedDays' = usedDays)
        /\ (front = "cli" /\ ConfigError(fields)) =>
              (stack' = <<>> /\ usedDays' = {}) ]_vars

(***************************************************************************)
(* C16.  As claimed: every call of process_files, made or in progress, has *)
(* a delete age of at least 30 days.                                       *)
(***************************************************************************)
C16_DeleteAgeAtLeastMinimum ==
    /\ \A d \in usedDays : d >= 30
    /\ \A k \in Invocations : stack[k].days >= 30

(***************************************************************************)
(* C17.  Every job the scheduler holds, and every job a Start in progress  *)
(* is about to register, has an interval of 30 to 3600 seconds.            *)
(***************************************************************************)
C17_RegisteredIntervalInBounds ==
    /\ \A j \in 1..Len(jobs) : jobs[j].interval >= 30 /\ jobs[j].interval <= 3600
    /\ \A k \in 1..Len(stack) :
          stack[k].fn \in {"toggle_copy_job", "job_wrapper"} =>
              (stack[k].interval >= 30 /\ stack[k].interval <= 3600)

C17_Witness ==
    /\ front = "gui" /\ is_running
    /\ fields.interval = "61"
    /\ Len(jobs) = 1 /\ jobs[1].interval = 3600
    /\ usedDays # {}

(***************************************************************************)
(* C18.  As claimed: at most one call of the job function is in progress.  *)
(***************************************************************************)
C18_AtMostOneInvocation == Cardinality(Invocations) <= 1

(***************************************************************************)
(* C19.  As claimed, in the GUI: the step of a Stop leaves the calls in    *)
(* progress as they are; while is_running is false the scheduler holds no  *)
(* job; and while is_running is false a call of the job function begins    *)
(* only by a click on Start.                                               *)
(***************************************************************************)
C19_StopLeavesRunAndStartsNone ==
    [][ front = "gui" =>
          /\ (is_running /\ ~ is_running') => stack' = stack
          /\ ~ is_running' => jobs' = <<>>
          /\ (Cardinality(Invocations') > Cardinality(Invocations) /\ ~ is_running) =>
                clicks' = clicks + 1 ]_vars

(***************************************************************************)
(* C21.  As claimed: a file whose copy or tar add raised in one run and    *)
(* that is still in the source is in the groups of the next run (unless    *)
(* its modification time cannot be read then) and, when that run reaches   *)
(* it, is copied or added again, with success or with an error, and is not *)
(* skipped; within a run a file that failed is not handled again.          *)
(***************************************************************************)
C21_FailedFileIsAttemptedAgain ==
    [][ /\ run' = run + 1 =>
              \A p \in failedBefore' : p \notin mtimeErr' => p \in GroupedPaths'
        /\ run' = run =>
              \A p \in failedBefore \ failedBefore' : outcome'[p] \in {"ok", "error"}
        /\ run' = run =>
              \A p \in AllPaths :
                  outcome[p] = "error" =>
                      /\ outcome'[p] = "error"
                      /\ RowsOf(runLog', p) = RowsOf(runLog, p) ]_vars

(***************************************************************************)
(* C26.  As claimed, in copy mode with action=move: when a run is          *)
(* complete, every source file it removed has its own content at the       *)
(* target path of its log rows, and two different source files the run     *)
(* copied have different target paths.                                     *)
(***************************************************************************)
C26_DeletedFileHasItsCopy ==
    (cfg.mode = "copy" /\ cfg.action = "move" /\ RunComplete) =>
        /\ \A p \in removed :
              \A k \in 1..Len(RowsOf(runLog, p)) :
                  LET t == Loc(RowsOf(runLog, p)[k].target)
                  IN  t \in DOMAIN copied /\ copied[t].src = p
        /\ \A i, j \in 1..Len(runLog) :
              (/\ runLog[i].source # runLog[j].source
               /\ outcome[runLog[i].source] = "ok"
               /\ outcome[runLog[j].source] = "ok") =>
                  Loc(runLog[i].target) # Loc(runLog[j].target)

(***************************************************************************)
(* C27.  As claimed, in archive mode without I/O errors: when a run is     *)
(* complete, every file of its groups has a member of its own in a tar,    *)
(* files of different groups have their members in different tars, and a   *)
(* file that was skipped has a member of its own.                          *)
(***************************************************************************)
C27_EachFileHasItsOwnMember ==
    (cfg.mode = "archive" /\ faults = {} /\ RunComplete) =>
        /\ \A p \in GroupedPaths : TarsOf(p) # {}
        /\ \A g, h \in 1..Len(groups) :
              g # h =>
                  \A k \in 1..Len(groups[g].files), m \in 1..Len(groups[h].files) :
                      TarsOf(groups[g].files[k].source_path)
                          \cap TarsOf(groups[h].files[m].source_path) = {}
        /\ \A p \in AllPaths : outcome[p] = "skipped" => TarsOf(p) # {}

(***************************************************************************)
(* C25.  In archive mode with action=move: a file the run reaches while a  *)
(* member made from it is in an archive is logged SKIPPED, and its removal *)
(* is not attempted; a file in the source that has such a member stays in  *)
(* the source, and no second member is made from it, in every step of      *)
(* every run, whatever its age.                                            *)
(***************************************************************************)
LastRow(rows) == rows[Len(rows)]

EventFields(n) ==
    [timestamp |-> "2025-03-10 12:00:" \o ToString(n),
     time      |-> "12:00:" \o ToString(n),
     source    |-> "/s/a/f" \o ToString(n),
     name      |-> "f" \o ToString(n),
     target    |-> "/out/a/f" \o ToString(n),
     status    |-> "SUCCESS " \o ToString(n)]

\* a CSV row is the data row of an event logged so far
IsDataRow(row, logged) ==
    \E n \in 1..logged :
        LET e == EventFields(n)
        IN  row = <<e.timestamp, e.source, e.name, e.target, e.status>>

HeaderOnceFirst(rows, logged) ==
    /\ Len(rows) >= 1
    /\ rows[1] = LOG_HEADER
    /\ \A k \in 2..Len(rows) : rows[k] # LOG_HEADER /\ IsDataRow(rows[k], logged)

(***************************************************************************)
(* C22.  As claimed: after every call of write_log_entry each daily log    *)
(* file that exists has the header as its first row and nowhere else, all  *)
(* other rows being data rows of five fields in the order timestamp,       *)
(* source, file name, target, status; and a call that finds the file       *)
(* existing appends exactly the one data row it was handed.                *)
(***************************************************************************)
C22_HeaderOnceThenDataRows ==
    [][ /\ \A d \in DOMAIN logFiles' : HeaderOnceFirst(logFiles'[d], nLogged')
        /\ (nLogged' = nLogged + 1 /\ logDay \in DOMAIN logFiles) =>
              LET e == EventFields(nLogged')
              IN  logFiles'[logDay] =
                      Append(logFiles[logDay],
                             <<e.timestamp, e.source, e.name, e.target, e.status>>) ]_vars

(***************************************************************************)
(* C23.  The history of the GUI never holds more than 100 rows; after n    *)
(* events it holds the min(n, 100) most recent ones, the newest first.     *)
(***************************************************************************)
C23_HistoryHoldsTheNewest ==
    /\ Len(LOG_HISTORY) <= 100
    /\ front = "gui" =>
          /\ Len(LOG_HISTORY) = (IF nLogged < 100 THEN nLogged ELSE 100)
          /\ \A k \in 1..Len(LOG_HISTORY) :
                LET e == EventFields(nLogged - k + 1)
                IN  LOG_HISTORY[k] = <<e.time, e.name, e.source, e.target, e.status>>

\* a full history has taken two more events
C23_Witness ==
    /\ front = "gui"
    /\ nLogged = 102
    /\ Len(LOG_HISTORY) = 100
    /\ LOG_HISTORY[100][2] = "f3"

(***************************************************************************)
(* C28.  As claimed, in the SEArch GUI: while the job is running at most   *)
(* one chain of check_schedule timers is alive, a chain being a pending    *)
(* after() callback of check_schedule or a check_schedule call in          *)
(* progress, which arms the next one.                                      *)
(***************************************************************************)
TimerChains ==
    timers + Cardinality({k \in 1..Len(stack) : stack[k].fn = "check_schedule"})

C28_OneTimerChain == (front = "gui" /\ is_running) => TimerChains <= 1

(***************************************************************************)
(* C24.  As claimed, in the SECopy GUI: while the job is stopped the       *)
(* scheduler holds no job, it never holds more than one, and one poll of   *)
(* the scheduler finds at most one run due.                                *)
(***************************************************************************)
C24_StopRemovesTheJob ==
    front = "secopy" =>
        /\ ~ is_running => jobs = <<>>
        /\ Len(jobs) <= 1
        /\ \A k \in 1..Len(stack) : stack[k].fn = "check_schedule" => stack[k].todo <= 1

(***************************************************************************)
(* C29.  As claimed: at most one _run_check_loop thread is alive at any    *)
(* time in the network checker.                                            *)
(***************************************************************************)
C29_OneCheckThreadAlive == Cardinality(Alive) <= 1

(***************************************************************************)
(* C30.  As claimed: after one run of interval_copy_files and one run of   *)
(* process_files in mode copy with action copy, on the same files with the *)
(* same settings, the two target trees hold the same paths with the same   *)
(* contents.                                                               *)
(***************************************************************************)
C30_SameTargetTree ==
    (secopyRuns = 1 /\ run = 1 /\ pc = "idle") => secopied = copied

====
